---- MODULE Spec2Model ----
(***************************************************************************)
(* vt-sniper: the course monitor of Run (polling / notification loop).     *)
(* Strings are Go strings: finite sequences of byte values.                *)
(***************************************************************************)
EXTENDS Integers, Sequences, FiniteSets, TLC

\* ---------------------------------------------------------------- bounds
MaxCRNs == 2
MaxAttempts == 3
\* rows of a results table handed to the scraping functions
MaxRows == 2

\* ------------------------------------------------------- string helpers
\* strings.Contains(s, sub); t is s, evaluated once
Contains(s, sub) ==
    \E t \in {s} : \E k \in 0..(Len(t) - Len(sub)) : SubSeq(t, k + 1, k + Len(sub)) = sub

\* unicode.IsSpace on the one-byte code points: \t \n \v \f \r and space
IsSpace(b) == b \in {9, 10, 11, 12, 13, 32}

\* The UTF-8 encodings of the code points for which unicode.IsSpace holds:
\* the one-byte ones, U+0085, U+00A0, U+1680, U+2000..U+200A, U+2028,
\* U+2029, U+202F, U+205F, U+3000
SpaceRunes ==
    {<<b>> : b \in {9, 10, 11, 12, 13, 32}}
    \cup {<<194, 133>>, <<194, 160>>, <<225, 154, 128>>}
    \cup {<<226, 128, b>> : b \in 128..138}
    \cup {<<226, 128, 168>>, <<226, 128, 169>>, <<226, 128, 175>>, <<226, 129, 159>>,
          <<227, 128, 128>>}

\* the white-space code point s begins with / ends with (<<>> when none)
LeadingSpace(s) ==
    IF \E r \in SpaceRunes : Len(r) <= Len(s) /\ SubSeq(s, 1, Len(r)) = r
    THEN CHOOSE r \in SpaceRunes : Len(r) <= Len(s) /\ SubSeq(s, 1, Len(r)) = r
    ELSE <<>>
TrailingSpace(s) ==
    IF \E r \in SpaceRunes : Len(r) <= Len(s) /\ SubSeq(s, Len(s) - Len(r) + 1, Len(s)) = r
    THEN CHOOSE r \in SpaceRunes : Len(r) <= Len(s) /\ SubSeq(s, Len(s) - Len(r) + 1, Len(s)) = r
    ELSE <<>>

RECURSIVE TrimLeft(_)
TrimLeft(s) ==
    IF LeadingSpace(s) # <<>> THEN TrimLeft(SubSeq(s, Len(LeadingSpace(s)) + 1, Len(s))) ELSE s

RECURSIVE TrimRight(_)
TrimRight(s) ==
    IF TrailingSpace(s) # <<>> THEN TrimRight(SubSeq(s, 1, Len(s) - Len(TrailingSpace(s)))) ELSE s

\* strings.TrimSpace(s)
TrimSpace(s) == TrimRight(TrimLeft(s))

\* The first n strings of ss, joined
RECURSIVE Join(_, _)
Join(ss, n) == IF n = 0 THEN <<>> ELSE Join(ss, n - 1) \o ss[n]

\* The strings of ss joined in order; t is ss, evaluated once
Concat(ss) == CHOOSE r \in {Join(t, Len(t)) : t \in {ss}} : TRUE

\* ------------------------------------------------------------- literals
\* "13466", "13472"
CRN13466 == <<49, 51, 52, 54, 54>>
CRN13472 == <<49, 51, 52, 55, 50>>
CRNPool == {CRN13466, CRN13472}

\* "OPEN SEAT: ", " (CRN: ", ")"
MsgPrefix == <<79, 80, 69, 78, 32, 83, 69, 65, 84, 58, 32>>
MsgMiddle == <<32, 40, 67, 82, 78, 58, 32>>
MsgSuffix == <<41>>

DefaultTimetableURL == "https://selfservice.banner.vt.edu/ssb/HZSKVTSC.P_ProcRequest"
StatusOK == 200
\* time.Sleep(500 * time.Millisecond), in milliseconds
CheckDelayMs == 500

\* ------------------------------------------------------- HTML documents
\* A parsed document is a sequence of tables; a table has a class and rows;
\* a row is a sequence of cells; a cell has a tag ("td"/"th") and its text.
Cell(tag, text) == [tag |-> tag, text |-> text]

RowText(row) == Concat([k \in 1..Len(row) |-> row[k].text])
TableText(t) == Concat([k \in 1..Len(t.rows) |-> RowText(t.rows[k])])

\* doc.Find(".dataentrytable")
DataEntryTables(doc) == SelectSeq(doc, LAMBDA t : t.class = "dataentrytable")

\* doc.Find(".dataentrytable").Text()
DataEntryText(doc) ==
    LET ts == DataEntryTables(doc)
    IN  Concat([k \in 1..Len(ts) |-> TableText(ts[k])])

\* doc.Find(".dataentrytable tr")
DataEntryRows(doc) ==
    LET ts == DataEntryTables(doc)
    IN  Concat([k \in 1..Len(ts) |-> ts[k].rows])

\* row.Find("td:nth-child(n)").Text()
TdNthChild(row, n) ==
    IF Len(row) >= n /\ row[n].tag = "td" THEN row[n].text ELSE <<>>

\* ------------------------------------------------------ 64-bit integers
\* Go's int and time.Duration are 64 bits wide and their arithmetic wraps. A
\* value is its bytes in two's complement, the least significant first:
\* eight for an int64.

\* The int64 of the number n, for -2^31 < n < 2^31
Int64(n) ==
    LET low == IF n >= 0 THEN n ELSE n + 2147483647 + 1
        high == IF n < 0 THEN 255 ELSE 0
    IN  <<low % 256, (low \div 256) % 256, (low \div 65536) % 256,
          (low \div 16777216) + (IF n < 0 THEN 128 ELSE 0), high, high, high, high>>

\* d < 0, d > 0
Negative(d) == d[Len(d)] >= 128
Positive(d) == ~Negative(d) /\ \E k \in 1..Len(d) : d[k] # 0

\* The sum of the products a[j] * b[k + 1 - j] for j in 1..n: what the
\* bytes of a and b give to byte k of their product
RECURSIVE ColumnSum(_, _, _, _)
ColumnSum(a, b, k, n) ==
    IF n = 0 THEN 0 ELSE ColumnSum(a, b, k, n - 1) + a[n] * b[k + 1 - n]

\* Byte k of the product before it is cut to a byte: its column and the
\* carry of the bytes below
RECURSIVE Column(_, _, _)
Column(a, b, k) ==
    IF k = 0 THEN 0 ELSE ColumnSum(a, b, k, k) + Column(a, b, k - 1) \div 256

\* The n low bytes of a * b
RECURSIVE Product(_, _, _)
Product(a, b, n) ==
    IF n = 0 THEN <<>> ELSE Append(Product(a, b, n - 1), Column(a, b, n) % 256)

\* a * b in the width of a and b: the bits above it are lost
Mul(a, b) == Product(a, b, Len(a))

\* time.Second: a Duration counts nanoseconds
Second == Int64(1000000000)

\* ------------------------------------------------------ configuration
\* Config{}
ZeroConfig == [CRNs |-> <<>>, Email |-> "", CheckInterval |-> Int64(0), Term |-> "",
               Campus |-> "", BaseURL |-> ""]

\* loadConfig on the file raw: raw.file tells whether os.ReadFile and
\* json.Unmarshal worked, the other fields are the decoded content. Every
\* error comes with Config{}.
loadConfig(raw) ==
    IF raw.file = "unreadable" THEN [err |-> "failed to read config file", cfg |-> ZeroConfig]
    ELSE IF raw.file = "malformed" THEN [err |-> "failed to parse config file", cfg |-> ZeroConfig]
    ELSE
    LET cfg == [CRNs          |-> raw.CRNs,
                Email         |-> raw.Email,
                CheckInterval |-> IF raw.CheckInterval = Int64(0) THEN Int64(30)
                                  ELSE raw.CheckInterval,
                Term          |-> IF raw.Term = "" THEN "202601" ELSE raw.Term,
                Campus        |-> IF raw.Campus = "" THEN "0" ELSE raw.Campus,
                BaseURL       |-> IF raw.BaseURL = "" THEN DefaultTimetableURL ELSE raw.BaseURL]
    IN  IF Len(cfg.CRNs) = 0
        THEN [err |-> "no CRNs specified in config", cfg |-> ZeroConfig]
        ELSE [err |-> "nil", cfg |-> cfg]

getBaseURL(c) == IF c.BaseURL # "" THEN c.BaseURL ELSE DefaultTimetableURL

buildPayload(c, crn, openOnly) ==
    [CAMPUS |-> c.Campus, TERMYEAR |-> c.Term, CORE_CODE |-> "AR%",
     subj_code |-> "%", SCHDTYPE |-> "%", CRSE_NUMBER |-> "", crn |-> crn,
     sess_code |-> "%", BTN_PRESSED |-> "FIND class sections", inst_name |-> "",
     disp_comments_in |-> "", open_only |-> IF openOnly THEN "on" ELSE "absent"]

\* ------------------------------------------------------ HTTP / scraping
\* What the remote end answers to one POST: whether the transport worked,
\* the status code, whether the body could be read and parsed, the document.
Response(transportOK, status, bodyOK, doc) ==
    [transportOK |-> transportOK, status |-> status, bodyOK |-> bodyOK, doc |-> doc]

\* Variant: every 2xx status is accepted
fetchDocument_Any2xx(resp) ==
    IF ~resp.transportOK THEN [err |-> "request failed", doc |-> <<>>]
    ELSE IF resp.status \notin 200..299 THEN [err |-> "unexpected status", doc |-> <<>>]
    ELSE IF ~resp.bodyOK THEN [err |-> "failed to parse HTML", doc |-> <<>>]
    ELSE [err |-> "nil", doc |-> resp.doc]

fetchDocument(resp) ==
    IF ~resp.transportOK THEN [err |-> "request failed", doc |-> <<>>]
    ELSE IF resp.status # StatusOK THEN [err |-> "unexpected status", doc |-> <<>>]
    ELSE IF ~resp.bodyOK THEN [err |-> "failed to parse HTML", doc |-> <<>>]
    ELSE [err |-> "nil", doc |-> resp.doc]

\* Request issued by checkSectionOpen / getCourseName
checkSectionOpenRequest(c, crn) == [url |-> getBaseURL(c), payload |-> buildPayload(c, crn, TRUE)]
getCourseNameRequest(c, crn) == [url |-> c.BaseURL, payload |-> buildPayload(c, crn, FALSE)]

\* Variant: a failed request counts as a section that is not open
checkSectionOpen_ErrorIsClosed(crn, resp) ==
    LET r == fetchDocument(resp)
    IN  IF r.err # "nil" THEN [open |-> FALSE, err |-> "nil"]
        ELSE [open |-> Contains(DataEntryText(r.doc), crn), err |-> "nil"]

\* Variant: a section is open when a row of the table names the CRN in its
\* first column
checkSectionOpen_PerRow(crn, resp) ==
    LET r == fetchDocument(resp)
    IN  IF r.err # "nil" THEN [open |-> FALSE, err |-> r.err]
        ELSE [open |-> \E k \in 1..Len(DataEntryRows(r.doc)) :
                          Contains(TdNthChild(DataEntryRows(r.doc)[k], 1), crn),
              err |-> "nil"]

checkSectionOpen(crn, resp) ==
    LET r == fetchDocument(resp)
    IN  IF r.err # "nil" THEN [open |-> FALSE, err |-> r.err]
        ELSE [open |-> Contains(DataEntryText(r.doc), crn), err |-> "nil"]

\* Variant: the scan stops at the first matching row
RECURSIVE ScanRows_FirstWins(_, _, _)
ScanRows_FirstWins(rows, crn, courseName) ==
    IF rows = <<>> THEN courseName
    ELSE IF Contains(TdNthChild(Head(rows), 1), crn)
    THEN TrimSpace(TdNthChild(Head(rows), 3))
    ELSE ScanRows_FirstWins(Tail(rows), crn, courseName)

\* The Each callback of getCourseName folded over the rows: every matching
\* row assigns courseName.
RECURSIVE ScanRows(_, _, _)
ScanRows(rows, crn, courseName) ==
    IF rows = <<>> THEN courseName
    ELSE ScanRows(Tail(rows), crn,
                  IF Contains(TdNthChild(Head(rows), 1), crn)
                  THEN TrimSpace(TdNthChild(Head(rows), 3))
                  ELSE courseName)

\* Variant: the name is returned without the check for an empty one
getCourseName_NoEmptyCheck(crn, resp) ==
    LET r == fetchDocument(resp)
    IN  IF r.err # "nil" THEN [name |-> <<>>, err |-> r.err]
        ELSE [name |-> ScanRows(DataEntryRows(r.doc), crn, <<>>), err |-> "nil"]

getCourseName(crn, resp) ==
    LET r == fetchDocument(resp)
    IN  IF r.err # "nil" THEN [name |-> <<>>, err |-> r.err]
        ELSE LET courseName == ScanRows(DataEntryRows(r.doc), crn, <<>>)
             IN  IF courseName = <<>>
                 THEN [name |-> <<>>, err |-> "course not found for CRN"]
                 ELSE [name |-> courseName, err |-> "nil"]

\* ------------------------------------------------------ notifications
\* sendEmail: apiKey is RESEND_API_KEY of the environment, providerErr the
\* error client.Emails.Send returns ("nil" on success).
sendEmail(apiKey, providerErr) ==
    IF apiKey = "" THEN "RESEND_API_KEY not set" ELSE providerErr

\* fmt.Sprintf("OPEN SEAT: %s (CRN: %s)", name, crn)
OpenSeatMsg(name, crn) == MsgPrefix \o name \o MsgMiddle \o crn \o MsgSuffix

\* ------------------------------------------------------ the remote end
\* "CRN", "Title"
TxtCRN == <<67, 82, 78>>
TxtTitle == <<84, 105, 116, 108, 101>>
\* "Data Structures and Algorithms", "Computer Systems"
TitleDSA ==
    <<68, 97, 116, 97, 32, 83, 116, 114, 117, 99, 116, 117, 114, 101, 115>> \o
    <<32, 97, 110, 100, 32, 65, 108, 103, 111, 114, 105, 116, 104, 109, 115>>
TitleSystems ==
    <<67, 111, 109, 112, 117, 116, 101, 114, 32, 83, 121, 115, 116, 101, 109, 115>>
TitleOf(crn) == IF crn = CRN13466 THEN TitleDSA ELSE TitleSystems

HeaderRow == <<Cell("th", TxtCRN), Cell("th", <<>>), Cell("th", TxtTitle)>>
\* the remote system pads the cells with whitespace
SectionRow(crn) ==
    <<Cell("td", <<10>> \o crn \o <<32>>), Cell("td", <<>>), Cell("td", <<32>> \o TitleOf(crn) \o <<10>>)>>

SectionDoc(crn) == <<[class |-> "dataentrytable", rows |-> <<HeaderRow, SectionRow(crn)>>]>>
NoSectionsDoc == <<[class |-> "plaintable", rows |-> <<HeaderRow>>]>>

Responses ==
    {Response(FALSE, 0, FALSE, <<>>), Response(TRUE, 500, TRUE, <<>>),
     Response(TRUE, StatusOK, TRUE, NoSectionsDoc)}
    \cup {Response(TRUE, StatusOK, TRUE, SectionDoc(c)) : c \in CRNPool}

\* answers to an availability check: also a body that cannot be parsed
CheckResponses == Responses \cup {Response(TRUE, StatusOK, FALSE, <<>>)}

ProviderErrs == {"nil", "delivery failed"}

\* ------------------------------------------------------ inputs of a run
RECURSIVE SeqsUpTo(_, _)
SeqsUpTo(S, n) ==
    IF n = 0 THEN {<<>>}
    ELSE LET shorter == SeqsUpTo(S, n - 1)
         IN  shorter \cup {Append(q, x) : q \in shorter, x \in S}

\* 9223372037, the least number of seconds whose nanoseconds pass 2^63 - 1
PastMaxSeconds == <<5, 125, 193, 37, 2, 0, 0, 0>>

\* Config files: checkInterval is absent (0, replaced by the default) or
\* negative (kept as it is), for every list of CRNs; for the lists of at
\* most one CRN it is also a number of seconds, of either sign, whose
\* nanoseconds do not fit an int64. A file may also be unreadable or
\* malformed.
RawConfigs ==
    {[file |-> "ok", CRNs |-> q, Email |-> "student@vt.edu", CheckInterval |-> n, Term |-> "",
      Campus |-> "", BaseURL |-> ""] :
         q \in SeqsUpTo(CRNPool, MaxCRNs), n \in {Int64(-1), Int64(0)}}
    \cup {[file |-> "ok", CRNs |-> q, Email |-> "student@vt.edu", CheckInterval |-> n,
           Term |-> "", Campus |-> "", BaseURL |-> ""] :
              q \in SeqsUpTo(CRNPool, 1), n \in {PastMaxSeconds, Mul(PastMaxSeconds, Int64(-1))}}
    \cup {[file |-> f, CRNs |-> <<>>, Email |-> "", CheckInterval |-> Int64(0), Term |-> "",
           Campus |-> "", BaseURL |-> ""] : f \in {"unreadable", "malformed"}}

\* ------------------------------------------------------ state
VARIABLES
    rawConfig,    \* the config file at opts.ConfigPath: readable or not, and its content
    opts,         \* RunOptions: EmailSender is "nil" or "mock"
    env,          \* process environment: RESEND_API_KEY
    pc,           \* where Run stands
    cfg,          \* cfg of Run
    emailSender,  \* emailSender of Run
    ri,           \* position of the resolution loop in cfg.CRNs
    courses,      \* courses of Run
    remaining,    \* remaining of Run
    interval,     \* interval of Run
    attempt,      \* attempt of Run
    i,            \* index of the course loop
    runErr,       \* error returned by Run ("nil": none)
    resolveLog,   \* history: getCourseName calls and their errors
    checkLog,     \* history: checkSectionOpen calls of the current attempt
    prevLog,      \* history: checkSectionOpen calls of the previous attempt
    sent,         \* history: sendEmail calls
    sendErr,      \* history: what the last sendEmail call returned
    senderCalls,  \* history: Send calls on the EmailSender of RunOptions
    logged,       \* what the last step wrote as a warning or an error line
    paused,       \* the suspension the last step completed: kind and duration
    call,         \* a function applied on its own: its name and arguments
    ret           \* what that function returned

vars == <<rawConfig, opts, env, pc, cfg, emailSender, ri, courses, remaining, interval,
          attempt, i, runErr, resolveLog, checkLog, prevLog, sent, sendErr, senderCalls,
          logged, paused, call, ret>>

\* what no step of Run writes
inputs == <<rawConfig, opts, env, call, ret>>
history == <<resolveLog, checkLog, prevLog, sent, sendErr, senderCalls>>

Terminal == {"done", "fatal", "interrupted"}

NoLog == [kind |-> "none", crn |-> <<>>, err |-> "nil"]
NoPause == [kind |-> "none", ms |-> 0]
NoCall == [fn |-> "none"]

Init ==
    /\ rawConfig \in RawConfigs
    /\ opts \in {[ConfigPath |-> "config.json", EmailSender |-> s] : s \in {"nil", "mock"}}
    /\ env \in {[RESEND_API_KEY |-> k] : k \in {"", "re_key"}}
    /\ pc = "start"
    /\ cfg = ZeroConfig
    /\ emailSender = "nil"
    /\ ri = 0
    /\ courses = <<>>
    /\ remaining = 0
    /\ interval = Int64(0)
    /\ attempt = 0
    /\ i = 0
    /\ runErr = "nil"
    /\ resolveLog = <<>>
    /\ checkLog = <<>>
    /\ prevLog = <<>>
    /\ sent = <<>>
    /\ sendErr = "none"
    /\ senderCalls = <<>>
    /\ logged = NoLog
    /\ paused = NoPause
    /\ call = NoCall
    /\ ret = NoCall

\* ------------------------------------------------------ steps of Run
\* Variant: the continue after the warning is missing
TrackCourse_NoSkip(cs, crn, r) ==
    Append(cs, [CRN |-> crn, Name |-> r.name, Found |-> FALSE])

\* Variant: a CRN that is tracked already is not tracked again
TrackCourse_Dedup(cs, crn, r) ==
    IF r.err # "nil" \/ \E k \in 1..Len(cs) : cs[k].CRN = crn THEN cs
    ELSE Append(cs, [CRN |-> crn, Name |-> r.name, Found |-> FALSE])

\* Body of the resolution loop for one CRN, given getCourseName's result r
TrackCourse(cs, crn, r) ==
    IF r.err # "nil" THEN cs
    ELSE Append(cs, [CRN |-> crn, Name |-> r.name, Found |-> FALSE])

\* Variant: no check for an empty course list
StartPolling_NoEmptyCheck(cs) ==
    [ok |-> TRUE, runErr |-> "nil", remaining |-> Len(cs)]

\* After the resolution loop: the empty check, then remaining := len(courses)
StartPolling(cs) ==
    IF Len(cs) = 0
    THEN [ok |-> FALSE, runErr |-> "no valid CRNs to monitor", remaining |-> 0]
    ELSE [ok |-> TRUE, runErr |-> "nil", remaining |-> Len(cs)]

\* Variant: the test of Found at the head of the loop body is missing
NextUnfound_NoSkip(cs, from) ==
    IF from > Len(cs) THEN Len(cs) + 1 ELSE from

\* The course loop from index from on: found courses are skipped (continue);
\* the result is the index of the next course to check, Len(cs) + 1 if none.
RECURSIVE NextUnfound(_, _)
NextUnfound(cs, from) ==
    IF from > Len(cs) THEN Len(cs) + 1
    ELSE IF cs[from].Found THEN NextUnfound(cs, from + 1)
    ELSE from

\* Variant: the test remaining == 0 after the course loop is missing
Advance_NeverDone(cs, rem, from) ==
    LET n == NextUnfound(cs, from)
    IN  IF n <= Len(cs) THEN [pc |-> "check", i |-> n]
        ELSE [pc |-> "wait", i |-> 0]

\* Variant: Run returns as soon as one course has been found
Advance_DoneOnAnyFound(cs, rem, from) ==
    LET n == NextUnfound(cs, from)
    IN  IF n <= Len(cs) THEN [pc |-> "check", i |-> n]
        ELSE IF rem < Len(cs) THEN [pc |-> "done", i |-> 0]
        ELSE [pc |-> "wait", i |-> 0]

\* Where Run stands once the course loop continues at index from: at the
\* next check, or after the loop, where remaining == 0 returns nil and any
\* other value starts the wait for the next attempt.
Advance(cs, rem, from) ==
    LET n == NextUnfound(cs, from)
    IN  IF n <= Len(cs) THEN [pc |-> "check", i |-> n]
        ELSE IF rem = 0 THEN [pc |-> "done", i |-> 0]
        ELSE [pc |-> "wait", i |-> 0]

\* Variant: the error branch returns from Run
ContinueAfterError_Return(cs, rem, k) == [pc |-> "fatal", i |-> 0]

\* Variant: the error branch leaves the course loop (break)
ContinueAfterError_Break(cs, rem, k) == Advance(cs, rem, Len(cs) + 1)

\* The continue of the error branch: on to the course after k, no delay
ContinueAfterError(cs, rem, k) == Advance(cs, rem, k + 1)

\* Variant: the notification is sent after every check that returned no error
OnCheckResult_NotifyAlways(cs, rem, k, r) ==
    IF r.err # "nil" THEN [courses |-> cs, remaining |-> rem, next |-> "continue"]
    ELSE IF r.open
    THEN [courses |-> [cs EXCEPT ![k].Found = TRUE], remaining |-> rem - 1, next |-> "send"]
    ELSE [courses |-> cs, remaining |-> rem, next |-> "send"]

\* Variant: remaining is not decremented when a course is found
OnCheckResult_NoDecrement(cs, rem, k, r) ==
    IF r.err # "nil" THEN [courses |-> cs, remaining |-> rem, next |-> "continue"]
    ELSE IF r.open
    THEN [courses |-> [cs EXCEPT ![k].Found = TRUE], remaining |-> rem, next |-> "send"]
    ELSE [courses |-> cs, remaining |-> rem, next |-> "sleep"]

\* Body of the course loop after checkSectionOpen returned r for course k
OnCheckResult(cs, rem, k, r) ==
    IF r.err # "nil" THEN [courses |-> cs, remaining |-> rem, next |-> "continue"]
    ELSE IF r.open
    THEN [courses |-> [cs EXCEPT ![k].Found = TRUE], remaining |-> rem - 1, next |-> "send"]
    ELSE [courses |-> cs, remaining |-> rem, next |-> "sleep"]

\* Outcome of a check as the history records it
Outcome(r) == IF r.err # "nil" THEN "error" ELSE IF r.open THEN "open" ELSE "closed"

\* Variant: a failed notification puts the course back to not found
AfterSend_Revert(cs, rem, k, e) ==
    IF e # "nil"
    THEN [courses |-> [cs EXCEPT ![k].Found = FALSE], remaining |-> rem + 1,
          pc |-> "sleep", runErr |-> "nil"]
    ELSE [courses |-> cs, remaining |-> rem, pc |-> "sleep", runErr |-> "nil"]

\* Variant: a failed notification is returned as the error of Run
AfterSend_Abort(cs, rem, k, e) ==
    IF e # "nil"
    THEN [courses |-> cs, remaining |-> rem, pc |-> "fatal", runErr |-> e]
    ELSE [courses |-> cs, remaining |-> rem, pc |-> "sleep", runErr |-> "nil"]

\* Run ignores what sendEmail returns and goes on to the delay
AfterSend(cs, rem, k, e) == [courses |-> cs, remaining |-> rem, pc |-> "sleep", runErr |-> "nil"]

\* log.Printf("Warning: couldn't get name for CRN %s: %v. ...") of the
\* resolution loop, for getCourseName's result r
ResolveWarning(crn, r) ==
    IF r.err # "nil" THEN [kind |-> "warning", crn |-> crn, err |-> r.err] ELSE NoLog

\* fmt.Printf("Error checking %s: %v") of the course loop, for
\* checkSectionOpen's result r
CheckErrorLine(crn, r) ==
    IF r.err # "nil" THEN [kind |-> "error", crn |-> crn, err |-> r.err] ELSE NoLog

\* What Run writes about the error e that sendEmail returned: nothing
SendErrorLine(crn, e) == NoLog

\* Variant: a CRN whose resolution failed is resolved again
ResolveNext_RetryOnError(k, r) == IF r.err # "nil" THEN k ELSE k + 1

\* The range loop over cfg.CRNs goes on to the next index
ResolveNext(k, r) == k + 1

\* Variant: after the delay the course loop looks at course k again
AfterDelay_Retry(cs, rem, k) == Advance(cs, rem, k)

\* After the delay the course loop goes on to the course after k
AfterDelay(cs, rem, k) == Advance(cs, rem, k + 1)

\* interval := time.Duration(cfg.CheckInterval) * time.Second: the int64
\* product, in nanoseconds
Interval(c) == Mul(c.CheckInterval, Second)

\* time.Now().Before(waitUntil) when the course loop is left: the wait loop
\* is entered only when waitUntil = now + interval lies ahead
WaitAhead(d) == Positive(d)

\* Where Run stands after a step that leaves it at a (a position Advance
\* gives) in attempt att: in the wait when there is one to make; with
\* nothing to wait for the wait loop runs zero times, attempt++ follows at
\* once and Run stands in the course loop of the next attempt.
AfterPass(a, cs, rem, att, d) ==
    IF a.pc = "wait" /\ ~WaitAhead(d)
    THEN [pc |-> Advance(cs, rem, 1).pc, i |-> Advance(cs, rem, 1).i,
          attempt |-> att + 1, next |-> TRUE]
    ELSE [pc |-> a.pc, i |-> a.i, attempt |-> att, next |-> FALSE]

\* loadConfig, then the choice of the email sender
LoadConfig ==
    /\ pc = "start"
    /\ LET r == loadConfig(rawConfig)
       IN  IF r.err # "nil"
           THEN /\ pc' = "fatal"
                /\ runErr' = "failed to load config"
                /\ UNCHANGED <<cfg, emailSender, ri>>
           ELSE /\ cfg' = r.cfg
                /\ emailSender' = IF opts.EmailSender = "nil" THEN "resend" ELSE opts.EmailSender
                /\ ri' = 1
                /\ pc' = "resolve"
                /\ UNCHANGED runErr
    /\ logged' = NoLog
    /\ paused' = NoPause
    /\ UNCHANGED <<inputs, courses, remaining, interval, attempt, i, history>>

\* One round of the resolution loop; after the last CRN, the empty check
\* and the entry into the first attempt.
Resolve(resp) ==
    /\ pc = "resolve"
    /\ \E crn \in {cfg.CRNs[ri]} :
       \E r \in {getCourseName(crn, resp)} :
       \E cs \in {TrackCourse(courses, crn, r)} :
           /\ courses' = cs
           /\ resolveLog' = Append(resolveLog, [crn |-> crn, err |-> r.err, name |-> r.name])
           /\ logged' = ResolveWarning(crn, r)
           /\ paused' = NoPause
           /\ IF ResolveNext(ri, r) <= Len(cfg.CRNs)
              THEN /\ ri' = ResolveNext(ri, r)
                   /\ UNCHANGED <<pc, remaining, interval, attempt, i, runErr>>
              ELSE LET st == StartPolling(cs)
                   IN  /\ ri' = 0
                       /\ runErr' = st.runErr
                       /\ remaining' = st.remaining
                       /\ IF st.ok
                          THEN /\ interval' = Interval(cfg)
                               /\ attempt' = 1
                               /\ pc' = Advance(cs, st.remaining, 1).pc
                               /\ i' = Advance(cs, st.remaining, 1).i
                          ELSE /\ pc' = "fatal"
                               /\ UNCHANGED <<interval, attempt, i>>
    /\ UNCHANGED <<inputs, cfg, emailSender, checkLog, prevLog, sent, sendErr, senderCalls>>

\* checkSectionOpen for course i and what the loop body does with the result
Check(resp) ==
    /\ pc = "check"
    /\ \E r \in {checkSectionOpen(courses[i].CRN, resp)} :
       \E res \in {OnCheckResult(courses, remaining, i, r)} :
       \E log \in {Append(checkLog, [attempt |-> attempt, idx |-> i,
                                     crn |-> courses[i].CRN, outcome |-> Outcome(r)])} :
           /\ courses' = res.courses
           /\ remaining' = res.remaining
           /\ logged' = CheckErrorLine(courses[i].CRN, r)
           /\ paused' = NoPause
           /\ IF res.next = "continue"
              THEN \E st \in {AfterPass(ContinueAfterError(res.courses, res.remaining, i),
                                        res.courses, res.remaining, attempt, interval)} :
                       /\ st.attempt <= MaxAttempts
                       /\ pc' = st.pc
                       /\ i' = st.i
                       /\ attempt' = st.attempt
                       /\ checkLog' = IF st.next THEN <<>> ELSE log
                       /\ prevLog' = IF st.next THEN log ELSE prevLog
                       /\ UNCHANGED sent
              ELSE IF res.next = "send"
              THEN /\ sent' = Append(sent, [to |-> cfg.Email, subject |-> "VT Course Section Open!",
                                            body |-> OpenSeatMsg(courses[i].Name, courses[i].CRN)])
                   /\ pc' = "send"
                   /\ checkLog' = log
                   /\ UNCHANGED <<i, attempt, prevLog>>
              ELSE /\ pc' = "sleep"
                   /\ checkLog' = log
                   /\ UNCHANGED <<i, sent, attempt, prevLog>>
    /\ UNCHANGED <<inputs, cfg, emailSender, ri, interval, runErr, resolveLog, sendErr, senderCalls>>

\* sendEmail returns
SendReturn(providerErr) ==
    /\ pc = "send"
    /\ LET e == sendEmail(env.RESEND_API_KEY, providerErr)
           res == AfterSend(courses, remaining, i, e)
       IN  /\ sendErr' = e
           /\ logged' = SendErrorLine(courses[i].CRN, e)
           /\ paused' = NoPause
           /\ courses' = res.courses
           /\ remaining' = res.remaining
           /\ pc' = res.pc
           /\ runErr' = res.runErr
    /\ UNCHANGED <<inputs, cfg, emailSender, ri, interval, attempt, i, resolveLog, checkLog, prevLog, sent, senderCalls>>

\* time.Sleep(500 * time.Millisecond) is over
Sleep ==
    /\ pc = "sleep"
    /\ \E st \in {AfterPass(AfterDelay(courses, remaining, i), courses, remaining, attempt, interval)} :
           /\ st.attempt <= MaxAttempts
           /\ pc' = st.pc
           /\ i' = st.i
           /\ attempt' = st.attempt
           /\ checkLog' = IF st.next THEN <<>> ELSE checkLog
           /\ prevLog' = IF st.next THEN checkLog ELSE prevLog
    /\ logged' = NoLog
    /\ paused' = [kind |-> "delay", ms |-> CheckDelayMs]
    /\ UNCHANGED <<inputs, cfg, emailSender, ri, interval, courses, remaining, runErr, resolveLog, sent,
                   sendErr, senderCalls>>

\* The wait for the interval, which lay ahead, is over: attempt++ and the
\* next pass
Wait ==
    /\ pc = "wait"
    /\ WaitAhead(interval)
    /\ attempt < MaxAttempts
    /\ attempt' = attempt + 1
    /\ pc' = Advance(courses, remaining, 1).pc
    /\ i' = Advance(courses, remaining, 1).i
    /\ prevLog' = checkLog
    /\ checkLog' = <<>>
    /\ logged' = NoLog
    /\ paused' = [kind |-> "wait", ns |-> interval]
    /\ UNCHANGED <<inputs, cfg, emailSender, ri, interval, courses, remaining, runErr, resolveLog, sent, sendErr, senderCalls>>

\* Variant: the interrupt is looked at only in the wait between attempts
Interruptible_OnlyWaiting(p) == p = "wait"

\* Run installs no signal handler: the interrupt ends the process at whatever
\* point it stands, as long as it runs
Interruptible(p) == p \notin Terminal

\* The operator's interrupt ends the process wherever it stands
Interrupt ==
    /\ Interruptible(pc)
    /\ pc' = "interrupted"
    /\ UNCHANGED <<inputs, cfg, emailSender, ri, interval, courses, remaining, attempt, i, runErr, history,
                   logged, paused>>

Next ==
    \/ LoadConfig
    \/ \E resp \in Responses : Resolve(resp)
    \/ \E resp \in CheckResponses : Check(resp)
    \/ \E providerErr \in ProviderErrs : SendReturn(providerErr)
    \/ Sleep
    \/ Wait
    \/ Interrupt

Spec == Init /\ [][Next]_vars

\* ------------------------------------------------------ fair runs
\* A check in a run in which every course is answered open in the end: the
\* answers of the last attempt the bound allows are open sections; before
\* it any answer can come.
CheckLive(resp) ==
    /\ pc = "check"
    /\ attempt = MaxAttempts
          => \E r \in {checkSectionOpen(courses[i].CRN, resp)} : r.err = "nil" /\ r.open
    /\ Check(resp)

NextLive ==
    \/ LoadConfig
    \/ \E resp \in Responses : Resolve(resp)
    \/ \E resp \in CheckResponses : CheckLive(resp)
    \/ \E providerErr \in ProviderErrs : SendReturn(providerErr)
    \/ Sleep
    \/ Wait

\* Run as main starts it: no sender in the options.
InitLive ==
    /\ Init
    /\ opts.EmailSender = "nil"

\* No interrupt, and the process is scheduled: a step of Run that can be
\* taken is taken.
LiveSpec ==
    /\ InitLive
    /\ [][NextLive]_vars
    /\ WF_vars(NextLive)

\* Exit status of the process (main): log.Fatal exits with 1
ExitStatus == IF pc = "done" THEN 0 ELSE IF pc = "fatal" THEN 1 ELSE -1

\* ------------------------------------------------------ derived notions
NumFound == Cardinality({k \in 1..Len(courses) : courses[k].Found})
NumUnfound == Cardinality({k \in 1..Len(courses) : ~courses[k].Found})
ResolvedOK == SelectSeq(resolveLog, LAMBDA e : e.err = "nil")
\* Run has got past its resolution loop
ResolutionOver == cfg.CRNs # <<>> /\ Len(resolveLog) = Len(cfg.CRNs)
\* Run is in (or was interrupted in, or has returned from) the polling loop
Polling == attempt >= 1
\* this step issues an availability check: its record is added to the log
\* of the attempt, which is the previous attempt's log already when the step
\* goes on to the next attempt at once
CheckStep ==
    \/ attempt' = attempt /\ Len(checkLog') = Len(checkLog) + 1
    \/ attempt' = attempt + 1 /\ Len(prevLog') = Len(checkLog) + 1
NewCheck == IF attempt' = attempt THEN checkLog'[Len(checkLog')] ELSE prevLog'[Len(prevLog')]
\* this step is the return of sendEmail into Run
SendStep == pc = "send" /\ pc' # "send" /\ pc' # "interrupted"

\* ------------------------------------------------------ C1
\* C1: the tracked courses are exactly the configured identifiers whose
\* resolution succeeded, in configured order, with the resolved name; they
\* all have found=false when the first attempt starts; every check and every
\* notification is for a tracked course, so never for an identifier that
\* failed resolution.
C1_TrackedAreResolved ==
    /\ Len(resolveLog) <= Len(cfg.CRNs)
    /\ \A k \in 1..Len(resolveLog) : resolveLog[k].crn = cfg.CRNs[k]
    /\ pc \in {"check", "send", "sleep", "wait", "done"} => ResolutionOver
    /\ \E ok \in {ResolvedOK} :
          /\ Len(courses) = Len(ok)
          /\ \A k \in 1..Len(courses) :
                /\ courses[k].CRN = ok[k].crn
                /\ courses[k].Name = ok[k].name
    /\ (pc = "check" /\ attempt = 1 /\ checkLog = <<>>) =>
          \A k \in 1..Len(courses) : ~courses[k].Found
    /\ \A k \in 1..Len(checkLog) :
          /\ checkLog[k].idx \in 1..Len(courses)
          /\ checkLog[k].crn = courses[checkLog[k].idx].CRN
          /\ \E e \in 1..Len(resolveLog) :
                resolveLog[e].err = "nil" /\ resolveLog[e].crn = checkLog[k].crn
    /\ \A k \in 1..Len(sent) :
          \E c \in 1..Len(courses) :
             sent[k].body = OpenSeatMsg(courses[c].Name, courses[c].CRN)

C1_Witness ==
    /\ pc = "wait"
    /\ Len(cfg.CRNs) = 2
    /\ resolveLog[1].err # "nil"
    /\ resolveLog[2].err = "nil"
    /\ Len(courses) = 1
    /\ Len(checkLog) = 1

\* ------------------------------------------------------ C2
\* C2: when every configured identifier has failed resolution, Run has
\* returned the "no valid CRNs" error (exit status 1) and no availability
\* check and no notification has been issued.
C2_NoValidTargetsIsFatal ==
    (ResolutionOver /\ \A k \in 1..Len(resolveLog) : resolveLog[k].err # "nil") =>
        /\ pc = "fatal"
        /\ runErr = "no valid CRNs to monitor"
        /\ ExitStatus # 0
        /\ attempt = 0
        /\ checkLog = <<>> /\ prevLog = <<>>
        /\ sent = <<>> /\ senderCalls = <<>>

C2_Witness ==
    /\ pc = "fatal"
    /\ Len(resolveLog) = 2
    /\ resolveLog[1].err # "nil" /\ resolveLog[2].err # "nil"

\* ------------------------------------------------------ C3
\* C3: throughout the polling loop remaining is the number of tracked
\* courses with found=false, so total - remaining is the number with
\* found=true, and 0 <= remaining <= total.
C3_RemainingCountsUnfound ==
    Polling =>
        /\ remaining = NumUnfound
        /\ Len(courses) - remaining = NumFound
        /\ 0 <= remaining /\ remaining <= Len(courses)

C3_Witness ==
    /\ pc = "wait" /\ attempt >= 2
    /\ Len(courses) = 2
    /\ remaining = 1
    /\ courses[2].Found /\ ~courses[1].Found

\* ------------------------------------------------------ C4
\* C4: in the polling loop no step increases remaining, no step takes a
\* course from found=true back to found=false (nor drops a course), and
\* remaining is 0 exactly when every tracked course has found=true.
C4_Monotone ==
    [][ /\ Polling => remaining' <= remaining
        /\ \A k \in 1..Len(courses) :
              courses[k].Found => (k <= Len(courses') /\ courses'[k].Found)
        /\ Polling' => ((remaining' = 0) <=> (\A k \in 1..Len(courses') : courses'[k].Found))
      ]_vars

C4_Witness ==
    /\ pc = "done"
    /\ attempt >= 2
    /\ Len(courses) = 2
    /\ remaining = 0
    /\ Len(checkLog) = 1
    /\ sendErr # "nil"

\* ------------------------------------------------------ C5
\* C5: every availability check is issued for a course whose found flag is
\* false when the check is issued; a found course is never checked again.
C5_FoundNeverChecked ==
    [][ CheckStep => /\ NewCheck.idx \in 1..Len(courses)
                     /\ ~courses[NewCheck.idx].Found
                     /\ NewCheck.crn = courses[NewCheck.idx].CRN
                     /\ \A k \in 1..Len(courses') :
                           (courses[k].Found /\ k # NewCheck.idx) => courses'[k].Found
      ]_vars

\* a later cycle in which the first course, found earlier, was passed over
\* and the second one checked
C5_Witness ==
    /\ attempt >= 2
    /\ Len(courses) = 2
    /\ courses[1].Found
    /\ \E k \in 1..Len(prevLog) : prevLog[k].idx = 1 /\ prevLog[k].outcome = "open"
    /\ Len(checkLog) = 1
    /\ checkLog[1].idx = 2

\* ------------------------------------------------------ C6
\* C6: a check that returns an error changes neither the courses nor
\* remaining, sends nothing, and leaves Run in the loop: at the next unfound
\* course of the attempt or, when every later course is found, in the wait
\* for the next attempt or at the first unfound course of the next attempt;
\* when a pass is over every course still not found was checked in it, and
\* every course whose check failed in the previous attempt was checked
\* again in this one.
C6_CheckErrorContinues ==
    /\ [][ (CheckStep /\ NewCheck.outcome = "error") =>
              /\ courses' = courses
              /\ remaining' = remaining
              /\ sent' = sent /\ senderCalls' = senderCalls
              /\ runErr' = "nil"
              /\ pc' \in {"check", "wait"}
              /\ attempt' \in {attempt, attempt + 1}
              /\ (pc' = "check" /\ attempt' = attempt)
                    => (i' > i /\ ~courses[i'].Found
                        /\ \A k \in (i + 1)..(i' - 1) : courses[k].Found)
              /\ (pc' = "wait" \/ attempt' = attempt + 1)
                    => \A k \in (i + 1)..Len(courses) : courses[k].Found
              /\ pc' = "wait" => attempt' = attempt
              /\ attempt' = attempt + 1
                    => (pc' = "check" /\ i' <= i /\ ~courses[i'].Found
                        /\ \A k \in 1..(i' - 1) : courses[k].Found)
         ]_vars
    /\ [](pc \in {"wait", "done"} =>
              /\ \A k \in 1..Len(courses) :
                    ~courses[k].Found => \E e \in 1..Len(checkLog) : checkLog[e].idx = k
              /\ \A p \in 1..Len(prevLog) :
                    prevLog[p].outcome = "error" =>
                        \E e \in 1..Len(checkLog) : checkLog[e].idx = prevLog[p].idx)

\* the first course failed in the previous attempt, the second was still
\* checked then, and the first was checked again in this attempt
C6_Witness ==
    /\ pc = "wait"
    /\ attempt >= 2
    /\ Len(prevLog) = 2
    /\ prevLog[1].outcome = "error" /\ prevLog[1].idx = 1
    /\ prevLog[2].idx = 2
    /\ checkLog # <<>>
    /\ checkLog[1].idx = 1

\* ------------------------------------------------------ C7
\* C7: when sendEmail returns an error, the course it was called for keeps
\* found=true, remaining keeps its decremented value, Run returns no error
\* and goes on to the delay and the rest of the loop.
C7_SendFailureKeepsFound ==
    [][ (SendStep /\ sendErr' # "nil") =>
              /\ courses[i].Found
              /\ courses' = courses
              /\ remaining' = remaining
              /\ remaining' = Cardinality({k \in 1..Len(courses') : ~courses'[k].Found})
              /\ runErr' = "nil"
              /\ pc' = "sleep"
      ]_vars

\* the key is absent, a notification failed, and the loop went on to check
\* the other course in a later attempt
C7_Witness ==
    /\ env.RESEND_API_KEY = ""
    /\ sendErr = "RESEND_API_KEY not set"
    /\ Len(courses) = 2
    /\ courses[1].Found
    /\ remaining = 1
    /\ attempt >= 2
    /\ checkLog # <<>>
    /\ checkLog[1].idx = 2

\* ------------------------------------------------------ C8
\* C8: when RunOptions carries an EmailSender, every course found has
\* produced exactly one Send call on that sender and no notification has
\* been sent any other way.
C8_SuppliedSenderIsUsed ==
    opts.EmailSender # "nil" =>
        /\ Len(senderCalls) = NumFound
        /\ sent = <<>>

\* ------------------------------------------------------ C9
\* C9: the number of sendEmail calls equals the number of courses found; a
\* call is made only in the step of a check that reported open, to the
\* configured address, with the message naming the name and the CRN of the
\* course of that check; a check that reported closed or an error sends
\* nothing.
C9_OneNotificationPerDetection ==
    /\ [](Len(sent) = NumFound)
    /\ [][ /\ sent' # sent =>
                /\ CheckStep
                /\ NewCheck.outcome = "open"
                /\ sent' = Append(sent, sent'[Len(sent')])
                /\ sent'[Len(sent')].to = cfg.Email
                /\ sent'[Len(sent')].body =
                      OpenSeatMsg(courses[NewCheck.idx].Name, courses[NewCheck.idx].CRN)
                /\ Contains(sent'[Len(sent')].body, courses[NewCheck.idx].Name)
                /\ Contains(sent'[Len(sent')].body, NewCheck.crn)
                /\ ~courses[NewCheck.idx].Found /\ courses'[NewCheck.idx].Found
           /\ (CheckStep /\ NewCheck.outcome # "open") => sent' = sent
           /\ (CheckStep /\ NewCheck.outcome = "open") => Len(sent') = Len(sent) + 1
         ]_vars

\* two notifications, one per course, the second course first
C9_Witness ==
    /\ Len(sent) = 2
    /\ Len(courses) = 2
    /\ sent[1].body = OpenSeatMsg(courses[2].Name, courses[2].CRN)
    /\ sent[2].body = OpenSeatMsg(courses[1].Name, courses[1].CRN)
    /\ courses[1].CRN # courses[2].CRN
    /\ \E k \in 1..Len(prevLog) : prevLog[k].outcome \in {"closed", "error"}

\* ------------------------------------------------------ C10
\* C10: tracked 13466 and 13472; attempt 1 finds neither open, attempt 2
\* finds 13466 open and 13472 not. Then remaining is 2 after attempt 1;
\* after attempt 2 one notification has been sent, for 13466, remaining is
\* 1, 13472 is not found and Run has not returned; in attempt 3 only 13472
\* is checked.
TrackedDemo ==
    /\ Len(courses) = 2
    /\ courses[1].CRN = CRN13466
    /\ courses[2].CRN = CRN13472

NeitherOpen(log, a) ==
    /\ Len(log) = 2
    /\ log[1].attempt = a /\ log[1].idx = 1 /\ log[1].outcome # "open"
    /\ log[2].attempt = a /\ log[2].idx = 2 /\ log[2].outcome # "open"

OnlyFirstOpen(log, a) ==
    /\ Len(log) = 2
    /\ log[1].attempt = a /\ log[1].idx = 1 /\ log[1].outcome = "open"
    /\ log[2].attempt = a /\ log[2].idx = 2 /\ log[2].outcome # "open"

C10_DemoScenario ==
    /\ (TrackedDemo /\ attempt = 1 /\ NeitherOpen(checkLog, 1)) =>
          /\ remaining = 2
          /\ sent = <<>>
          /\ pc \in {"sleep", "wait", "interrupted"}
    /\ (TrackedDemo /\ attempt = 2 /\ NeitherOpen(prevLog, 1) /\ OnlyFirstOpen(checkLog, 2)) =>
          /\ Len(sent) = 1
          /\ sent[1].body = OpenSeatMsg(courses[1].Name, CRN13466)
          /\ remaining = 1
          /\ courses[1].Found /\ ~courses[2].Found
          /\ pc \in {"sleep", "wait", "interrupted"}
    /\ (TrackedDemo /\ attempt = 3 /\ OnlyFirstOpen(prevLog, 2)) =>
          /\ Len(checkLog) <= 1
          /\ \A k \in 1..Len(checkLog) :
                checkLog[k].crn = CRN13472 /\ checkLog[k].idx = 2 /\ checkLog[k].attempt = 3
          /\ pc = "check" => (i = 2 /\ checkLog = <<>>)
          /\ pc \in {"wait", "done"} => Len(checkLog) = 1

C10_Witness ==
    /\ TrackedDemo
    /\ attempt = 3
    /\ OnlyFirstOpen(prevLog, 2)
    /\ prevLog[2].outcome = "closed"
    /\ Len(sent) = 1
    /\ Len(checkLog) = 1
    /\ checkLog[1].crn = CRN13472
    /\ pc = "wait"

\* ------------------------------------------------------ C11
\* C11: Run has returned nil (exit status 0) only with remaining = 0 and
\* every tracked course found, after a pass (no check is pending); while
\* remaining is 0 Run is never at a check nor in the wait between attempts,
\* and no step issues a check or enters or leaves that wait.
C11_DoneOnlyWhenAllFound ==
    /\ [](pc = "done" =>
              /\ remaining = 0
              /\ courses # <<>>
              /\ \A k \in 1..Len(courses) : courses[k].Found
              /\ runErr = "nil"
              /\ ExitStatus = 0
              /\ checkLog # <<>>)
    /\ []((Polling /\ remaining = 0) => pc \in {"send", "sleep", "done", "interrupted"})
    /\ []((Polling /\ ExitStatus = 0) => remaining = 0)
    /\ [][ (Polling /\ remaining = 0) =>
              /\ ~CheckStep
              /\ pc' # "wait" /\ pc' # "check"
              /\ attempt' = attempt
         ]_vars
    /\ [][ pc' = "done" => (pc \in {"sleep", "done"} /\ remaining = 0) ]_vars

C11_Witness ==
    /\ pc = "done"
    /\ Len(courses) = 2
    /\ attempt = 2
    /\ Len(prevLog) = 2
    /\ Len(checkLog) = 1

\* ------------------------------------------------------ C12
\* C12: in a fair run without interrupt in which every course is answered
\* open in the end (at the latest in attempt MaxAttempts, after whatever
\* errors and closed answers), the polling loop, once entered, leads to Run
\* returning nil with remaining = 0 and every course found, whatever errors
\* the checks and the notifications return on the way.
C12_EventuallyDone ==
    Polling ~> (pc = "done" /\ remaining = 0 /\ \A k \in 1..Len(courses) : courses[k].Found)

\* Run has returned nil after a check failed in the previous attempt and
\* the notification failed
C12_Witness ==
    /\ pc = "done"
    /\ remaining = 0
    /\ Len(courses) = 2
    /\ sendErr # "nil"
    /\ \E k \in 1..Len(prevLog) : prevLog[k].outcome = "error"

\* ------------------------------------------------------ C13
\* C13: a step that brings Run to the check of a further course in the same
\* attempt, after a check of that attempt was made, is the end of the
\* 500 ms delay, whatever the previous check returned.
C13_DelayBetweenChecks ==
    [][(pc' = "check" /\ checkLog' # <<>> /\ attempt' = attempt)
          => (pc = "sleep" /\ paused' = [kind |-> "delay", ms |-> CheckDelayMs])]_vars

\* ------------------------------------------------------ C14
\* C14: at every suspension point of Run (before and during resolution,
\* during a check, during the sending of a notification, during the delay
\* and during the wait) the interrupt can be taken and ends the process in
\* one step without a check or a notification; once ended, no step issues a
\* check or sends a notification.
C14_InterruptHonoured ==
    /\ pc \in {"start", "resolve", "check", "send", "sleep", "wait"}
          => ENABLED (Interrupt /\ pc' = "interrupted" /\ UNCHANGED <<courses, remaining, history>>)
    /\ pc = "interrupted"
          => ~ ENABLED (Next /\ (checkLog' # checkLog \/ sent' # sent \/ resolveLog' # resolveLog))

\* Run was interrupted in the polling loop after a notification, with a
\* course still not found
C14_Witness ==
    /\ pc = "interrupted"
    /\ sent # <<>>
    /\ checkLog # <<>>
    /\ NumUnfound > 0

\* ------------------------------------------------------ C15
\* C15: every step in which a resolution, a check or a notification fails
\* writes a line that names the CRN concerned and the error.
C15_ErrorsAreLogged ==
    [][/\ (Len(resolveLog') = Len(resolveLog) + 1 /\ resolveLog'[Len(resolveLog')].err # "nil")
            => /\ logged'.kind # "none"
               /\ logged'.crn = resolveLog'[Len(resolveLog')].crn
               /\ logged'.err = resolveLog'[Len(resolveLog')].err
       /\ (CheckStep /\ NewCheck.outcome = "error")
            => /\ logged'.kind # "none"
               /\ logged'.crn = NewCheck.crn
               /\ logged'.err # "nil"
       /\ (SendStep /\ sendErr' # "nil")
            => /\ logged'.kind # "none"
               /\ logged'.crn = courses[i].CRN
               /\ logged'.err = sendErr']_vars

\* ------------------------------------------------------ the scraping functions on their own
\* Rows a results table can hold, besides HeaderRow and the SectionRows:
\* a second row for 13466 under another title, padded with U+00A0 (&nbsp;)
AltRow ==
    <<Cell("td", CRN13466), Cell("td", <<>>),
      Cell("td", <<194, 160>> \o TitleOf(CRN13472) \o <<194, 160>>)>>
\* 13466 appears in the title only
TitleOnlyRow == <<Cell("td", TxtCRN), Cell("td", <<>>), Cell("td", CRN13466)>>
\* "134" and "66" in adjacent cells
SplitRow == <<Cell("td", <<49, 51, 52>>), Cell("td", <<54, 54>>), Cell("td", TxtTitle)>>
\* a row for 13466 whose title is blank: a space and U+00A0 (&nbsp;)
BlankTitleRow == <<Cell("td", CRN13466), Cell("td", <<>>), Cell("td", <<32, 194, 160>>)>>

RowPool ==
    {HeaderRow, SectionRow(CRN13466), SectionRow(CRN13472), AltRow, TitleOnlyRow, SplitRow,
     BlankTitleRow}

TableClasses == {"dataentrytable", "plaintable"}

\* one table of up to MaxRows rows, or a dataentrytable of one row followed
\* by a second table of one row
FnDocs ==
    {<<[class |-> cl, rows |-> rs]>> : cl \in TableClasses, rs \in SeqsUpTo(RowPool, MaxRows)}
    \cup {<<[class |-> "dataentrytable", rows |-> <<r1>>], [class |-> cl, rows |-> <<r2>>]>> :
             cl \in TableClasses, r1 \in RowPool, r2 \in RowPool}

FnResponses ==
    {Response(FALSE, 0, FALSE, <<>>), Response(TRUE, 500, TRUE, <<>>),
     Response(TRUE, StatusOK, FALSE, <<>>)}
    \cup {Response(TRUE, StatusOK, TRUE, d) : d \in FnDocs}
    \cup {Response(TRUE, st, ok, SectionDoc(CRN13466)) :
             st \in {201, 204, 302, 404}, ok \in BOOLEAN}

\* Config.BaseURL of the receiver: not set, or the address of a test server
BaseURLs == {"", "http://127.0.0.1:8080"}

\* Run is not started; a Config, an identifier and a response are chosen
FnInit ==
    /\ rawConfig = ZeroConfig
    /\ opts = [ConfigPath |-> "config.json", EmailSender |-> "nil"]
    /\ env = [RESEND_API_KEY |-> ""]
    /\ pc = "start"
    /\ cfg = ZeroConfig
    /\ emailSender = "nil"
    /\ ri = 0
    /\ courses = <<>>
    /\ remaining = 0
    /\ interval = Int64(0)
    /\ attempt = 0
    /\ i = 0
    /\ runErr = "nil"
    /\ resolveLog = <<>>
    /\ checkLog = <<>>
    /\ prevLog = <<>>
    /\ sent = <<>>
    /\ sendErr = "none"
    /\ senderCalls = <<>>
    /\ logged = NoLog
    /\ paused = NoPause
    /\ call \in {[fn |-> "none", base |-> b, crn |-> c, resp |-> r, url |-> "none"] :
                    b \in BaseURLs, c \in CRNPool, r \in FnResponses}
    /\ ret = NoCall

runState ==
    <<rawConfig, opts, env, pc, cfg, emailSender, ri, courses, remaining, interval, attempt, i,
      runErr, history, logged, paused>>

\* the receiver of the call
CallConfig == [ZeroConfig EXCEPT !.BaseURL = call.base]

\* cfg.checkSectionOpen(crn) with the chosen response
CallCheckSectionOpen ==
    /\ call.fn = "none"
    /\ call' = [call EXCEPT !.fn = "checkSectionOpen",
                            !.url = checkSectionOpenRequest(CallConfig, call.crn).url]
    /\ ret' = checkSectionOpen(call.crn, call.resp)
    /\ UNCHANGED runState

\* cfg.getCourseName(crn) with the chosen response; a POST to the empty URL
\* gets no answer
CallGetCourseName ==
    /\ call.fn = "none"
    /\ getCourseNameRequest(CallConfig, call.crn).url = "" => ~call.resp.transportOK
    /\ call' = [call EXCEPT !.fn = "getCourseName",
                            !.url = getCourseNameRequest(CallConfig, call.crn).url]
    /\ ret' = getCourseName(call.crn, call.resp)
    /\ UNCHANGED runState

\* fetchDocument with the chosen response
CallFetchDocument ==
    /\ call.fn = "none"
    /\ call' = [call EXCEPT !.fn = "fetchDocument"]
    /\ ret' = fetchDocument(call.resp)
    /\ UNCHANGED runState

\* The body of the resolution loop of Run with what getCourseName returned
TrackResolved ==
    /\ call.fn = "getCourseName"
    /\ resolveLog = <<>>
    /\ resolveLog' = <<[crn |-> call.crn, err |-> ret.err, name |-> ret.name]>>
    /\ courses' = TrackCourse(courses, call.crn, ret)
    /\ logged' = ResolveWarning(call.crn, ret)
    /\ UNCHANGED <<inputs, pc, cfg, emailSender, ri, remaining, interval, attempt, i, runErr, checkLog,
                   prevLog, sent, sendErr, senderCalls, paused>>

FnNext == CallCheckSectionOpen \/ CallGetCourseName \/ CallFetchDocument \/ TrackResolved

FnSpec == FnInit /\ [][FnNext]_vars

\* ------------------------------------------------------ C16
\* The texts of the cells of the dataentrytable tables, in document order
RECURSIVE CellTexts(_)
CellTexts(doc) ==
    IF doc = <<>> THEN <<>>
    ELSE IF Head(doc).class # "dataentrytable" THEN CellTexts(Tail(doc))
    ELSE IF Head(doc).rows = <<>> THEN CellTexts(Tail(doc))
    ELSE LET row == Head(Head(doc).rows)
         IN  [k \in 1..Len(row) |-> row[k].text]
                \o CellTexts(<<[Head(doc) EXCEPT !.rows = Tail(@)]>> \o Tail(doc))

RECURSIVE TotalLen(_)
TotalLen(texts) == IF texts = <<>> THEN 0 ELSE Len(Head(texts)) + TotalLen(Tail(texts))

\* the n-th byte of the texts read one after the other (0 past the end)
RECURSIVE ByteAt(_, _)
ByteAt(texts, n) ==
    IF texts = <<>> THEN 0
    ELSE IF n <= Len(Head(texts)) THEN Head(texts)[n]
    ELSE ByteAt(Tail(texts), n - Len(Head(texts)))

\* sub is read at some position of the texts read one after the other
OccursIn(sub, texts) ==
    \E p \in 0..(TotalLen(texts) - Len(sub)) :
        \A j \in 1..Len(sub) : ByteAt(texts, p + j) = sub[j]

\* C16: checkSectionOpen answers true exactly when the CRN is read somewhere
\* in the text of the dataentrytable tables taken as one string, rows, cells
\* and tables run together; when the request fails it answers false with
\* the error.
C16_SubstringSemantics ==
    call.fn = "checkSectionOpen"
        => /\ ret.err = "nil" <=> (call.resp.transportOK /\ call.resp.status = StatusOK /\ call.resp.bodyOK)
           /\ ret.err # "nil" => ~ret.open
           /\ ret.err = "nil" => (ret.open <=> OccursIn(call.crn, CellTexts(call.resp.doc)))

\* checkSectionOpen answered true for a table none of whose cells holds the
\* CRN
C16_Witness ==
    /\ call.fn = "checkSectionOpen"
    /\ ret.open
    /\ \A t \in 1..Len(call.resp.doc) : \A r \in 1..Len(call.resp.doc[t].rows) :
          \A c \in 1..Len(call.resp.doc[t].rows[r]) :
              ~Contains(call.resp.doc[t].rows[r][c].text, call.crn)

\* ------------------------------------------------------ C17
\* C17: every call of the resolver is made before the polling loop, for the
\* configured CRN that follows the ones already resolved; the polling loop
\* is entered only when every configured CRN has had its one call, and no
\* call is made from then on.
C17_ResolutionOnceAtStartup ==
    [][/\ resolveLog' # resolveLog
            => /\ attempt = 0
               /\ checkLog' = <<>> /\ prevLog' = <<>> /\ sent' = <<>>
               /\ Len(resolveLog) < Len(cfg.CRNs)
               /\ resolveLog' = Append(resolveLog, resolveLog'[Len(resolveLog')])
               /\ resolveLog'[Len(resolveLog')].crn = cfg.CRNs[Len(resolveLog) + 1]
       /\ attempt' >= 1
            => /\ Len(resolveLog') = Len(cfg'.CRNs)
               /\ \A k \in 1..Len(resolveLog') : resolveLog'[k].crn = cfg'.CRNs[k]
       /\ attempt >= 1 => resolveLog' = resolveLog]_vars

\* Run polls after two resolver calls, the first of which failed
C17_Witness ==
    /\ Polling
    /\ checkLog # <<>>
    /\ Len(resolveLog) = 2
    /\ resolveLog[1].err # "nil"
    /\ resolveLog[2].err = "nil"

\* ------------------------------------------------------ C18
\* the courses checked in the pass that log records
CheckedIn(log) == {log[k].idx : k \in 1..Len(log)}

\* C18: the checks of the current attempt are checks of tracked courses in
\* increasing position, no course twice; a course passed over was found
\* already, a course checked and not reported open is still not found; and
\* when the wait begins, and all through the next attempt, every course
\* still not found has had its check in the pass before.
C18_SequentialPass ==
    /\ \A k \in 1..Len(checkLog) :
          /\ checkLog[k].attempt = attempt
          /\ checkLog[k].idx \in 1..Len(courses)
          /\ checkLog[k].crn = courses[checkLog[k].idx].CRN
          /\ courses[checkLog[k].idx].Found <=> checkLog[k].outcome = "open"
          /\ \A j \in 1..(k - 1) : checkLog[j].idx < checkLog[k].idx
          /\ \A m \in 1..(checkLog[k].idx - 1) : m \notin CheckedIn(checkLog) => courses[m].Found
    /\ pc = "wait"
          => \A m \in 1..Len(courses) : ~courses[m].Found => m \in CheckedIn(checkLog)
    /\ \A k \in 1..Len(prevLog) : prevLog[k].attempt = attempt - 1
    /\ attempt >= 2
          => \A m \in 1..Len(courses) : ~courses[m].Found => m \in CheckedIn(prevLog)

\* The second pass has checked only the course the first pass left not found
C18_Witness ==
    /\ pc = "wait"
    /\ attempt = 2
    /\ Len(prevLog) = 2
    /\ Len(checkLog) = 1
    /\ checkLog[1].idx = 2

\* ------------------------------------------------------ C19
\* d in twice its width
Widen(d) == d \o [k \in 1..Len(d) |-> IF Negative(d) THEN 255 ELSE 0]
\* the duration d is n seconds: n times a second, with no bit lost
LastsSeconds(d, n) == Widen(d) = Mul(Widen(n), Widen(Second))

\* C19: the attempt counter is set to 1 when the polling loop is entered and
\* changes only by 1, in the step that ends one wait of CheckInterval
\* seconds and starts a pass with no check made yet; a step that ends a pass
\* goes to the wait when a course is left not found (also after a failed
\* check) and returns otherwise; the wait is left only by such a step.
C19_OneWaitPerCycle ==
    [][/\ (attempt = 0 /\ attempt' # 0) => attempt' = 1
       /\ (attempt >= 1 /\ attempt' # attempt)
            => /\ attempt' = attempt + 1
               /\ pc = "wait"
               /\ remaining > 0
               /\ paused'.kind = "wait"
               /\ LastsSeconds(paused'.ns, cfg.CheckInterval)
               /\ checkLog' = <<>>
       /\ (pc \in {"check", "sleep"} /\ pc' \notin {"check", "send", "sleep", "interrupted"})
            => pc' = IF remaining' > 0 THEN "wait" ELSE "done"
       /\ (pc = "wait" /\ pc' # "interrupted")
            => /\ attempt' = attempt + 1
               /\ pc' = "check"
       /\ (paused'.kind = "wait" /\ pc' # "interrupted") => pc = "wait"]_vars

\* ------------------------------------------------------ C20
\* the rows of the dataentrytable tables of the response of the call
CallRows == DataEntryRows(call.resp.doc)
\* positions of the rows whose first column holds the CRN of the call
Matching == {k \in 1..Len(CallRows) : Contains(TdNthChild(CallRows[k], 1), call.crn)}
FirstMatch == CHOOSE k \in Matching : \A m \in Matching : k <= m
LastMatch == CHOOSE k \in Matching : \A m \in Matching : m <= k
ThirdColumn(k) == TrimSpace(TdNthChild(CallRows[k], 3))

\* C20 as stated: the name getCourseName returns is the trimmed third column
\* of the first matching row.
C20_FirstMatchWins ==
    (call.fn = "getCourseName" /\ ret.err = "nil")
        => (Matching # {} /\ ret.name = ThirdColumn(FirstMatch))

\* C20, amended: the name getCourseName returns is the trimmed third column
\* of the last matching row; it returns the name exactly when the fetch
\* worked, a row matches and that column of the last matching row is not
\* blank, and an error otherwise.
C20_LastMatchWins ==
    call.fn = "getCourseName"
        => /\ ret.err = "nil"
                <=> /\ call.resp.transportOK /\ call.resp.status = StatusOK /\ call.resp.bodyOK
                    /\ Matching # {}
                    /\ ThirdColumn(LastMatch) # <<>>
           /\ ret.err = "nil" => ret.name = ThirdColumn(LastMatch)
           /\ ret.err # "nil" => ret.name = <<>>

\* getCourseName has returned a name for a table in which two rows with
\* different titles match
C20_Witness ==
    /\ call.fn = "getCourseName"
    /\ ret.err = "nil"
    /\ Cardinality(Matching) = 2
    /\ ThirdColumn(FirstMatch) # ThirdColumn(LastMatch)
    /\ ThirdColumn(FirstMatch) # <<>>

\* ------------------------------------------------------ C21
\* s is made of white-space code points only
RECURSIVE AllSpace(_)
AllSpace(s) ==
    \/ s = <<>>
    \/ \E r \in SpaceRunes :
          /\ Len(r) <= Len(s)
          /\ SubSeq(s, 1, Len(r)) = r
          /\ AllSpace(SubSeq(s, Len(r) + 1, Len(s)))

\* C21: getCourseName returns the not-found error exactly when the request
\* worked and either no row holds the CRN in its first column or the title
\* taken from the matching row (the last one, when several match) is blank;
\* whenever it returns no error the name is not empty, and the course the
\* resolution loop then tracks has that name.
C21_NotFoundOrNonEmptyName ==
    call.fn = "getCourseName"
        => /\ ret.err = "course not found for CRN"
                <=> /\ fetchDocument(call.resp).err = "nil"
                    /\ \/ Matching = {}
                       \/ AllSpace(TdNthChild(CallRows[LastMatch], 3))
           /\ ret.err = "nil" => ret.name # <<>>
           /\ \A k \in 1..Len(courses) : courses[k].Name # <<>> /\ courses[k].Name = ret.name
           /\ resolveLog # <<>> => (courses # <<>> <=> ret.err = "nil")

\* The resolution loop has dropped a CRN that a row of the table names, its
\* title being blank
C21_Witness ==
    /\ call.fn = "getCourseName"
    /\ resolveLog # <<>>
    /\ courses = <<>>
    /\ Matching # {}
    /\ ret.err = "course not found for CRN"

\* ------------------------------------------------------ C22
\* C22: a check whose request fails (no answer, a status that is refused, a
\* body that cannot be parsed) is recorded as an error with the error of
\* the request and takes the error branch: the course is left as it was,
\* nothing is counted, nothing is sent, and Run neither sends nor sleeps
\* next.
C22_FetchErrorTakesErrorBranch ==
    [][\A resp \in CheckResponses :
          (fetchDocument(resp).err # "nil" /\ Check(resp))
              => /\ NewCheck.outcome = "error"
                 /\ logged' = [kind |-> "error", crn |-> courses[i].CRN,
                               err |-> fetchDocument(resp).err]
                 /\ courses' = courses
                 /\ remaining' = remaining
                 /\ sent' = sent
                 /\ pc' \notin {"send", "sleep"}]_vars

\* A check has just failed on a body that could not be parsed, and Run goes
\* on with the next course
C22_Witness ==
    /\ checkLog # <<>>
    /\ checkLog[Len(checkLog)].outcome = "error"
    /\ logged.kind = "error"
    /\ logged.err = "failed to parse HTML"
    /\ pc = "check"
    /\ sent = <<>>

\* ------------------------------------------------------ C23
\* what fetchDocument does once the status is accepted: parse the body
ParsedResult ==
    IF call.resp.bodyOK THEN [err |-> "nil", doc |-> call.resp.doc]
    ELSE [err |-> "failed to parse HTML", doc |-> <<>>]

RequestFailed == {"request failed", "unexpected status"}

\* C23 as stated: fetchDocument returns a request failure exactly when the
\* transport fails or the status is not a 2xx one, and parses the body for
\* every 2xx status.
C23_Non2xxIsFailure ==
    call.fn = "fetchDocument"
        => /\ ret.err \in RequestFailed
                <=> (~call.resp.transportOK \/ call.resp.status \notin 200..299)
           /\ (call.resp.transportOK /\ call.resp.status \in 200..299) => ret = ParsedResult

\* C23, amended: fetchDocument returns a request failure exactly when the
\* transport fails or the status is not 200 (201 and 204 included), with no
\* document; only for status 200 does it parse the body and return the
\* result of that.
C23_Non200IsFailure ==
    call.fn = "fetchDocument"
        => /\ ret.err \in RequestFailed
                <=> (~call.resp.transportOK \/ call.resp.status # 200)
           /\ ret.err \in RequestFailed => ret.doc = <<>>
           /\ ~call.resp.transportOK => ret.err = "request failed"
           /\ (call.resp.transportOK /\ call.resp.status = 200) => ret = ParsedResult

\* fetchDocument has refused a 2xx answer whose body holds a results table
C23_Witness ==
    /\ call.fn = "fetchDocument"
    /\ call.resp.transportOK
    /\ call.resp.status \in 201..299
    /\ call.resp.bodyOK
    /\ call.resp.doc # <<>>
    /\ ret.err = "unexpected status"

\* ------------------------------------------------------ C24
\* C24: checkSectionOpen and getCourseName post to Config.BaseURL when it is
\* set and to the default timetable URL when it is not.
C24_SameEndpoint ==
    call.fn \in {"checkSectionOpen", "getCourseName"}
        => call.url = IF call.base # "" THEN call.base ELSE DefaultTimetableURL

\* ------------------------------------------------------ C25
\* positions of the configured list, of the tracked courses and of the
\* notifications that name the CRN c (the message ends with " (CRN: c)")
ConfiguredAs(c) == {k \in 1..Len(cfg.CRNs) : cfg.CRNs[k] = c}
ResolvedAs(c) == {k \in 1..Len(resolveLog) : resolveLog[k].crn = c /\ resolveLog[k].err = "nil"}
TrackedAs(c) == {k \in 1..Len(courses) : courses[k].CRN = c}
EndsWith(s, t) == Len(s) >= Len(t) /\ SubSeq(s, Len(s) - Len(t) + 1, Len(s)) = t
\* " (CRN: %s)" of the notification, for each CRN
CRNSuffix == [c \in CRNPool |-> MsgMiddle \o c \o MsgSuffix]
NotifiedOf(c) == {k \in 1..Len(sent) : EndsWith(sent[k].body, CRNSuffix[c])}

\* C25 as stated: at most one tracked course and at most one notification
\* for each distinct CRN, also when the configured list repeats a CRN.
C25_OnePerDistinctIdentifier ==
    \A c \in CRNPool :
        /\ Cardinality(TrackedAs(c)) <= 1
        /\ Cardinality(NotifiedOf(c)) <= 1

\* C25, amended: the tracked courses and the notifications are counted per
\* entry of the configured list, not per distinct CRN: a CRN has as many
\* tracked courses as it has entries whose resolution succeeded (two when it
\* is listed twice), and as many notifications as tracked courses of it
\* were found, never more than it has entries.
C25_OnePerConfiguredEntry ==
    \A c \in CRNPool :
        /\ Cardinality(TrackedAs(c)) = Cardinality(ResolvedAs(c))
        /\ Cardinality(ResolvedAs(c)) <= Cardinality(ConfiguredAs(c))
        /\ Cardinality(NotifiedOf(c)) = Cardinality({k \in TrackedAs(c) : courses[k].Found})
        /\ Cardinality(NotifiedOf(c)) <= Cardinality(ConfiguredAs(c))

\* A CRN listed twice is tracked twice and two notifications of it are sent
C25_Witness ==
    /\ Len(courses) = 2
    /\ courses[1].CRN = courses[2].CRN
    /\ Len(sent) = 2
    /\ Cardinality(NotifiedOf(courses[1].CRN)) = 2

====
